---------------------------- MODULE Spec2Model ----------------------------
(***************************************************************************)
(* A model of the file-embedding index of src/src/main.rs: the similarity  *)
(* scorer cosine_similarity (in IEEE-754 binary32 arithmetic, bit for bit),*)
(* the ingestion pipeline index_file / index_directory and the search      *)
(* engine hybrid_search over the record store.                             *)
(***************************************************************************)
EXTENDS Integers, Sequences, FiniteSets, TLC

VARIABLES
    store,   \* the rows of table `files`, in the order a full scan returns them
    ev,      \* what the last step did and what it returned
    dir,     \* the position of the index_directory call in progress
    model,   \* the session's embedding_model: a function from text to its embedding
    cosA,    \* cosine_similarity's first argument  (specification SpecCos)
    cosB,    \* cosine_similarity's second argument (specification SpecCos)
    cosOut,  \* cosine_similarity's return value    (specification SpecCos)
    tasks    \* the index_file calls in flight (specification SpecInterleaved)

vars == <<store, ev, dir, model, cosA, cosB, cosOut, tasks>>

(***************************************************************************)
(* f32: IEEE-754 binary32.  A value is its three fields: sign s, biased    *)
(* exponent e (8 bits) and fraction m (23 bits).  Arithmetic is round to   *)
(* nearest, ties to even, with subnormals, infinities and NaN, as the      *)
(* Rust operators *, +, / and f32::sqrt compute it.  Every intermediate    *)
(* stays below 2^31.                                                       *)
(***************************************************************************)
FracBits == 23
ExpMax == 255
ExpBias == 127

P12 == 2^12
P21 == 2^21
P23 == 2^FracBits
P24 == 2^24
P26 == 2^26
P27 == 2^27

F32(s, e, m) == [s |-> s, e |-> e, m |-> m]
F32Zero(s) == F32(s, 0, 0)
F32Inf(s) == F32(s, ExpMax, 0)
F32NaN == F32(0, ExpMax, 2^22)
F32One == F32(0, ExpBias, 0)

IsNaN(x) == x.e = ExpMax /\ x.m # 0
IsInf(x) == x.e = ExpMax /\ x.m = 0
IsZero(x) == x.e = 0 /\ x.m = 0

\* x >> n, the bits shifted out OR-ed into the lowest bit kept (sticky)
ShiftRightSticky(x, n) ==
    IF n >= 31 THEN (IF x # 0 THEN 1 ELSE 0)
    ELSE LET p == 2^n
             q == x \div p
         IN  IF x % p # 0 /\ q % 2 = 0 THEN q + 1 ELSE q

\* the value sig * 2^ex with sig brought into [2^26, 2^27)
RECURSIVE NormTo27(_, _)
NormTo27(sig, ex) ==
    IF sig >= P27 THEN NormTo27(ShiftRightSticky(sig, 1), ex + 1)
    ELSE IF sig < P26 THEN NormTo27(sig * 2, ex - 1)
    ELSE <<sig, ex>>

\* round sig * 2^ex (sig > 0, sticky in its lowest bit) to the nearest f32
RoundPack(s, sig0, ex0) ==
    LET n == NormTo27(sig0, ex0)
        e == n[2] + 26 + ExpBias
    IN  IF e >= ExpMax THEN F32Inf(s)
        ELSE LET sig == IF e <= 0 THEN ShiftRightSticky(n[1], 1 - e) ELSE n[1]
                 eb == IF e <= 0 THEN 1 ELSE e
                 low == sig % 8
                 q == sig \div 8
                 r == IF low > 4 \/ (low = 4 /\ q % 2 = 1) THEN q + 1 ELSE q
                 bits == (eb - 1) * P23 + r
             IN  IF bits >= ExpMax * P23 THEN F32Inf(s)
                 ELSE F32(s, bits \div P23, bits % P23)

\* a finite non-zero x as <<sig, ex>>, x = sig * 2^ex, subnormals as they are
RawSig(x) == IF x.e = 0 THEN <<x.m, 1 - ExpBias - FracBits>>
             ELSE <<P23 + x.m, x.e - ExpBias - FracBits>>

RECURSIVE NormUp24(_, _)
NormUp24(sig, ex) == IF sig < P23 THEN NormUp24(sig * 2, ex - 1) ELSE <<sig, ex>>

\* a finite non-zero x as <<sig, ex>> with sig in [2^23, 2^24)
NormSig(x) == LET r == RawSig(x) IN NormUp24(r[1], r[2])

Xor(s, t) == IF s = t THEN 0 ELSE 1

F32Mul(a, b) ==
    IF IsNaN(a) \/ IsNaN(b) THEN F32NaN
    ELSE IF IsInf(a) \/ IsInf(b)
    THEN (IF IsZero(a) \/ IsZero(b) THEN F32NaN ELSE F32Inf(Xor(a.s, b.s)))
    ELSE IF IsZero(a) \/ IsZero(b) THEN F32Zero(Xor(a.s, b.s))
    ELSE LET na == NormSig(a)
             nb == NormSig(b)
             a1 == na[1] \div P12
             a0 == na[1] % P12
             b1 == nb[1] \div P12
             b0 == nb[1] % P12
             mid == a1 * b0 + a0 * b1
             low == (mid % P12) * P12 + a0 * b0
             hi == a1 * b1 + (mid \div P12) + (low \div P24)
             lo == low % P24
             top == hi * 8 + (lo \div P21)
             sig == IF lo % P21 # 0 /\ top % 2 = 0 THEN top + 1 ELSE top
         IN  RoundPack(Xor(a.s, b.s), sig, na[2] + nb[2] + 21)

F32Add(a, b) ==
    IF IsNaN(a) \/ IsNaN(b) THEN F32NaN
    ELSE IF IsInf(a)
    THEN (IF IsInf(b) /\ a.s # b.s THEN F32NaN ELSE a)
    ELSE IF IsInf(b) THEN b
    ELSE IF IsZero(a) /\ IsZero(b) THEN F32Zero(IF a.s = b.s THEN a.s ELSE 0)
    ELSE IF IsZero(a) THEN b
    ELSE IF IsZero(b) THEN a
    ELSE LET ra == RawSig(a)
             rb == RawSig(b)
             ex == IF ra[2] >= rb[2] THEN ra[2] ELSE rb[2]
             A == ShiftRightSticky(ra[1] * 8, ex - ra[2])
             B == ShiftRightSticky(rb[1] * 8, ex - rb[2])
         IN  IF a.s = b.s THEN RoundPack(a.s, A + B, ex - 3)
             ELSE IF A > B THEN RoundPack(a.s, A - B, ex - 3)
             ELSE IF B > A THEN RoundPack(b.s, B - A, ex - 3)
             ELSE F32Zero(0)

\* restoring square root, two radicand bits a step: the pairs of sig, then zeros
RECURSIVE SqrtLoop(_, _, _, _)
SqrtLoop(sig, i, rem, root) ==
    IF i < -13 THEN <<root, rem>>
    ELSE LET pair == IF i >= 0 THEN (sig \div (4^i)) % 4 ELSE 0
             r == rem * 4 + pair
             t == root * 4 + 1
         IN  IF r >= t THEN SqrtLoop(sig, i - 1, r - t, root * 2 + 1)
             ELSE SqrtLoop(sig, i - 1, r, root * 2)

F32Sqrt(a) ==
    IF IsNaN(a) THEN F32NaN
    ELSE IF IsZero(a) THEN a
    ELSE IF a.s = 1 THEN F32NaN
    ELSE IF IsInf(a) THEN a
    ELSE LET n == NormSig(a)
             odd == n[2] % 2 # 0
             sig == IF odd THEN n[1] * 2 ELSE n[1]
             ex == IF odd THEN n[2] - 1 ELSE n[2]
             rr == SqrtLoop(sig, 12, 0, 0)
             sticky == IF rr[2] # 0 THEN 1 ELSE 0
         IN  RoundPack(0, rr[1] * 2 + sticky, (ex \div 2) - 14)

\* long division, one quotient bit a step
RECURSIVE DivLoop(_, _, _, _)
DivLoop(i, rem, d, q) ==
    IF i = 0 THEN <<q, rem>>
    ELSE IF rem >= d THEN DivLoop(i - 1, (rem - d) * 2, d, q * 2 + 1)
    ELSE DivLoop(i - 1, rem * 2, d, q * 2)

F32Div(a, b) ==
    IF IsNaN(a) \/ IsNaN(b) THEN F32NaN
    ELSE IF IsInf(a) THEN (IF IsInf(b) THEN F32NaN ELSE F32Inf(Xor(a.s, b.s)))
    ELSE IF IsInf(b) THEN F32Zero(Xor(a.s, b.s))
    ELSE IF IsZero(b) THEN (IF IsZero(a) THEN F32NaN ELSE F32Inf(Xor(a.s, b.s)))
    ELSE IF IsZero(a) THEN F32Zero(Xor(a.s, b.s))
    ELSE LET na == NormSig(a)
             nb == NormSig(b)
             qr == DivLoop(27, na[1], nb[1], 0)
             sticky == IF qr[2] # 0 THEN 1 ELSE 0
         IN  RoundPack(Xor(a.s, b.s), qr[1] * 2 + sticky, na[2] - nb[2] - 27)

\* a non-NaN x as an integer that orders as x does (+0 and -0 are both 0)
F32Key(x) == IF x.s = 1 THEN 0 - (x.e * P23 + x.m) ELSE x.e * P23 + x.m

\* the operators ==, <, <= of f32: false whenever an operand is NaN
F32Eq(a, b) == ~IsNaN(a) /\ ~IsNaN(b) /\ F32Key(a) = F32Key(b)
F32Lt(a, b) == ~IsNaN(a) /\ ~IsNaN(b) /\ F32Key(a) < F32Key(b)
F32Le(a, b) == ~IsNaN(a) /\ ~IsNaN(b) /\ F32Key(a) <= F32Key(b)

(***************************************************************************)
(* cosine_similarity, src/src/main.rs:15-41.  Iterator::sum folds with +   *)
(* from zero, left to right.                                               *)
(***************************************************************************)
RECURSIVE SumProducts(_, _, _)
SumProducts(a, b, n) ==
    IF n = 0 THEN F32Zero(0)
    ELSE F32Add(SumProducts(a, b, n - 1), F32Mul(a[n], b[n]))

\* a.iter().zip(b.iter()).map(|(x, y)| x * y).sum()
DotProduct(a, b) == SumProducts(a, b, Len(a))

\* a.iter().map(|x| x * x).sum::<f32>().sqrt()
Magnitude(a) == F32Sqrt(SumProducts(a, a, Len(a)))

\* a cosine with neither the length check nor the zero-magnitude check
cosine_similarity_nochecks(a, b) ==
    LET n == IF Len(a) <= Len(b) THEN Len(a) ELSE Len(b)
    IN  F32Div(SumProducts(a, b, n), F32Mul(Magnitude(a), Magnitude(b)))

cosine_similarity(a, b) ==
    IF Len(a) # Len(b) THEN F32Zero(0)
    ELSE LET dot_product == DotProduct(a, b)
             magnitude_a == Magnitude(a)
             magnitude_b == Magnitude(b)
         IN  IF F32Eq(magnitude_a, F32Zero(0)) \/ F32Eq(magnitude_b, F32Zero(0))
             THEN F32Zero(0)
             ELSE F32Div(dot_product, F32Mul(magnitude_a, magnitude_b))

(***************************************************************************)
(* Values of the program: Option, Result and FileEmbeddingError.           *)
(***************************************************************************)
None == <<>>
Some(x) == <<x>>

Ok(v) == [ok |-> TRUE, v |-> v]
Err(e) == [ok |-> FALSE, err |-> e]

\* src/src/error.rs: the variants of FileEmbeddingError
IoError == [kind |-> "Io"]
DatabaseError(cause) == [kind |-> "Database", cause |-> cause]
EmbeddingError == [kind |-> "Embedding"]
UnsupportedFileType(ext) == [kind |-> "UnsupportedFileType", ext |-> ext]
PdfExtractionError == [kind |-> "PdfExtraction"]
WalkDirError == [kind |-> "WalkDir"]

SUPPORTED_TEXT_EXTENSIONS ==
    {"txt", "md", "rs", "py", "js", "json", "yaml", "yml", "toml", "css",
     "html", "htm", "xml", "csv", "log", "pdf", "doc", "docx"}

(***************************************************************************)
(* The file system the program runs against.  A text is a sequence of      *)
(* characters.  utf8 is the file's content as read_to_string gives it      *)
(* (None: not valid UTF-8), pdf what pdf_extract extracts from its bytes   *)
(* (None: not a PDF).  "{FF}" and "{FE}" stand for the bytes 0xFF and 0xFE *)
(* in a file name, "{U+FFFD}" for the replacement character.               *)
(***************************************************************************)
TextRust == <<"r", "u", "s", "t">>
TextPython == <<"p", "y">>
TextWeather == <<"w", "e", "a">>
TextNotPdf == <<"N", "o", "t">>

PathA == "/t/a.txt"
PathPdf == "/t/R.PDF"
PathBadPdf == "/t/c.pdf"
PathXyz == "/t/d.xyz"
PathNoExt == "/t/Makefile"
PathBinLog == "/t/bin.log"
PathDirMd == "/t/docs.md"
PathGone == "/t/gone.txt"
PathNFF == "/t/n{FF}.md"
PathNFE == "/t/n{FE}.md"

Paths == {PathA, PathPdf, PathBadPdf, PathXyz, PathNoExt, PathBinLog,
          PathDirMd, PathGone, PathNFF, PathNFE}

RegularFile(ext, name, lossy, len, utf8, pdf) ==
    [kind |-> "file", ext |-> ext, name |-> name, lossy |-> lossy,
     len |-> len, utf8 |-> utf8, pdf |-> pdf]

FileSystem(p) ==
    CASE p = PathA -> RegularFile(Some("txt"), "a.txt", "/t/a.txt", 4,
                                  Some(TextRust), None)
      [] p = PathPdf -> RegularFile(Some("PDF"), "R.PDF", "/t/R.PDF", 900,
                                    None, Some(TextPython))
      [] p = PathBadPdf -> RegularFile(Some("pdf"), "c.pdf", "/t/c.pdf", 3,
                                       Some(TextNotPdf), None)
      [] p = PathXyz -> RegularFile(Some("xyz"), "d.xyz", "/t/d.xyz", 4,
                                    Some(TextRust), None)
      [] p = PathNoExt -> RegularFile(None, "Makefile", "/t/Makefile", 2,
                                      Some(TextPython), None)
      [] p = PathBinLog -> RegularFile(Some("log"), "bin.log", "/t/bin.log", 7,
                                       None, None)
      [] p = PathDirMd -> [kind |-> "dir", ext |-> Some("md"), name |-> "docs.md",
                           lossy |-> "/t/docs.md", len |-> 4096]
      [] p = PathGone -> [kind |-> "missing", ext |-> Some("txt"),
                          name |-> "gone.txt", lossy |-> "/t/gone.txt"]
      [] p = PathNFF -> RegularFile(Some("md"), "n{U+FFFD}.md", "/t/n{U+FFFD}.md",
                                    4, Some(TextRust), None)
      [] p = PathNFE -> RegularFile(Some("md"), "n{U+FFFD}.md", "/t/n{U+FFFD}.md",
                                    3, Some(TextWeather), None)

\* str::to_lowercase on the extensions that occur
ToLowercase(x) ==
    CASE x = "PDF" -> "pdf"
      [] x = "TXT" -> "txt"
      [] OTHER -> x

\* fs::metadata(&path)
Metadata(p) ==
    LET f == FileSystem(p)
    IN  IF f.kind = "missing" THEN Err(IoError)
        ELSE Ok([is_file |-> f.kind = "file", len |-> f.len])

\* path.extension().and_then(|ext| ext.to_str())
Extension(p) == FileSystem(p).ext

\* path.to_string_lossy().to_string()
ToStringLossy(p) == FileSystem(p).lossy

\* path.file_name().unwrap_or_default().to_string_lossy().to_string()
FileName(p) == FileSystem(p).name

\* mime_guess::from_path(&path).first().map(|m| m.to_string())
MimeGuess(p) ==
    LET x == Extension(p)
        e == IF x = None THEN "" ELSE ToLowercase(x[1])
    IN  CASE e = "txt" -> Some("text/plain")
          [] e = "pdf" -> Some("application/pdf")
          [] e = "md" -> Some("text/markdown")
          [] OTHER -> None

PreviewChars == 1000

\* content.chars().take(n).collect::<String>()
Take(t, n) == SubSeq(t, 1, IF Len(t) <= n THEN Len(t) ELSE n)

(***************************************************************************)
(* The embedding provider: a function from a text to Result<Vec<f32>>,     *)
(* fixed when the system is constructed.  EmbeddingModels samples such     *)
(* functions: one whose vectors share a dimension, one whose dimension     *)
(* differs between texts, one that fails on some texts.                    *)
(***************************************************************************)
QueryEmpty == <<>>
QueryRust == TextRust
Queries == {QueryEmpty, QueryRust}
Texts == {TextRust, TextPython, TextWeather, QueryEmpty}

F32Two == F32(0, ExpBias + 1, 0)
F32MinusOne == F32(1, ExpBias, 0)
F32Half == F32(0, ExpBias - 1, 0)

ModelUniform ==
    [t \in Texts |->
        CASE t = TextRust -> Ok(<<F32One, F32One>>)
          [] t = TextPython -> Ok(<<F32MinusOne, F32Zero(0)>>)
          [] t = TextWeather -> Ok(<<F32Half, F32Two>>)
          [] t = QueryEmpty -> Ok(<<F32Two, F32Two>>)]

ModelMixedDim ==
    [t \in Texts |->
        CASE t = TextRust -> Ok(<<F32Two>>)
          [] t = TextPython -> Ok(<<F32One, F32MinusOne>>)
          [] t = TextWeather -> Ok(<<F32One, F32Zero(0)>>)
          [] t = QueryEmpty -> Ok(<<F32One, F32Zero(0)>>)]

ModelFailing ==
    [t \in Texts |->
        CASE t = TextRust -> Ok(<<F32One, F32Zero(0)>>)
          [] t = TextPython -> Err(EmbeddingError)
          [] t = TextWeather -> Ok(<<F32Zero(0), F32Zero(0)>>)
          [] t = QueryEmpty -> Err(EmbeddingError)]

EmbeddingModels == {ModelUniform, ModelMixedDim, ModelFailing}

\* self.embedding_model.embed(vec![text], None) and the [0] of its result
Embed(mdl, t) == mdl[t]

(***************************************************************************)
(* The record store: table `files` with the UNIQUE index idx_path          *)
(* (main.rs:93).  A created row gets a generated id and a full scan        *)
(* returns the rows in id order: a new row may land at any position of the *)
(* scan.  db says what the store does on this call: fail, or where the     *)
(* new row lands.                                                          *)
(***************************************************************************)
InsertAt(st, i, x) == SubSeq(st, 1, i - 1) \o <<x>> \o SubSeq(st, i, Len(st))

StoredPaths(st) == {st[i].path : i \in 1..Len(st)}

DbChoices(st) ==
    {[fault |-> TRUE, pos |-> 1]}
        \cup {[fault |-> FALSE, pos |-> i] : i \in 1..(Len(st) + 1)}

\* a create that replaces the row of the same path
CreateUpsert(st, rec, db) ==
    IF db.fault THEN [res |-> Err(DatabaseError("Failure")), store |-> st]
    ELSE IF rec.path \in StoredPaths(st)
    THEN [res |-> Ok(rec),
          store |-> [i \in 1..Len(st) |->
                        IF st[i].path = rec.path THEN rec ELSE st[i]]]
    ELSE [res |-> Ok(rec), store |-> InsertAt(st, db.pos, rec)]

\* a create that leaves the row behind when the call fails
CreatePartial(st, rec, db) ==
    IF rec.path \in StoredPaths(st)
    THEN [res |-> Err(DatabaseError("IndexExists")), store |-> st]
    ELSE [res |-> IF db.fault THEN Err(DatabaseError("Failure")) ELSE Ok(rec),
          store |-> InsertAt(st, IF db.fault THEN 1 ELSE db.pos, rec)]

\* a create that recreates the table first
CreateAfterReset(st, rec, db) ==
    IF db.fault THEN [res |-> Err(DatabaseError("Failure")), store |-> st]
    ELSE IF rec.path \in StoredPaths(st)
    THEN [res |-> Err(DatabaseError("IndexExists")), store |-> st]
    ELSE [res |-> Ok(rec), store |-> <<rec>>]

\* a create on a table without the unique index
CreateNoIndex(st, rec, db) ==
    IF db.fault THEN [res |-> Err(DatabaseError("Failure")), store |-> st]
    ELSE [res |-> Ok(rec), store |-> InsertAt(st, db.pos, rec)]

\* self.db.create("files").content(file_record).await
Create(st, rec, db) ==
    IF db.fault THEN [res |-> Err(DatabaseError("Failure")), store |-> st]
    ELSE IF rec.path \in StoredPaths(st)
    THEN [res |-> Err(DatabaseError("IndexExists")), store |-> st]
    ELSE [res |-> Ok(rec), store |-> InsertAt(st, db.pos, rec)]

\* a scan that answers a failure with no rows
SelectAllLenient(st, fault) == Ok(IF fault THEN <<>> ELSE st)

\* self.db.query("SELECT * FROM files").await?.take(0)
SelectAll(st, fault) == IF fault THEN Err(DatabaseError("Failure")) ELSE Ok(st)

(***************************************************************************)
(* The ingestion pipeline.                                                 *)
(***************************************************************************)
\* extract_text_content, main.rs:110-129
extract_text_content(p) ==
    LET x == Extension(p)
        extension == IF x = None THEN "" ELSE ToLowercase(x[1])
        f == FileSystem(p)
    IN  IF extension = "pdf"
        THEN (IF f.pdf = None THEN Err(PdfExtractionError) ELSE Ok(f.pdf[1]))
        ELSE IF extension \in SUPPORTED_TEXT_EXTENSIONS
        THEN (IF f.utf8 = None THEN Err(IoError) ELSE Ok(f.utf8[1]))
        ELSE Err(UnsupportedFileType(extension))

\* an extension check that lets every extension through
IsSupportedAny(extension) == TRUE

\* extension.as_ref().map_or(false, |ext| SUPPORTED_TEXT_EXTENSIONS.contains(..))
IsSupported(extension) ==
    extension # None /\ extension[1] \in SUPPORTED_TEXT_EXTENSIONS

\* index_file, main.rs:131-209: its result, the store it leaves and the
\* collaborators it called, in order
index_file(st, mdl, p, db) ==
    LET metadata == Metadata(p)
        x == Extension(p)
        extension == IF x = None THEN None ELSE Some(ToLowercase(x[1]))
    IN  IF ~metadata.ok
        THEN [res |-> metadata, store |-> st, calls |-> <<"stat">>]
        ELSE IF ~metadata.v.is_file \/ ~IsSupported(extension)
        THEN [res |-> Err(UnsupportedFileType(
                            IF extension = None THEN "unknown" ELSE extension[1])),
              store |-> st, calls |-> <<"stat">>]
        ELSE LET content == extract_text_content(p)
             IN  IF ~content.ok
                 THEN [res |-> content, store |-> st,
                       calls |-> <<"stat", "extract">>]
                 ELSE LET embeddings == Embed(mdl, content.v)
                      IN  IF ~embeddings.ok
                          THEN [res |-> Err(EmbeddingError), store |-> st,
                                calls |-> <<"stat", "extract", "embed">>]
                          ELSE LET file_record ==
                                     [path |-> ToStringLossy(p),
                                      name |-> FileName(p),
                                      extension |-> extension,
                                      mime_type |-> MimeGuess(p),
                                      size_bytes |-> metadata.v.len,
                                      content_embedding |-> embeddings.v,
                                      content_preview |->
                                          Take(content.v, PreviewChars)]
                                   created == Create(st, file_record, db)
                               IN  [res |-> IF created.res.ok THEN Ok(<<>>)
                                            ELSE created.res,
                                    store |-> created.store,
                                    calls |-> <<"stat", "extract", "embed", "create">>]

(***************************************************************************)
(* The search engine.                                                      *)
(***************************************************************************)
\* a comparison that ranks the lowest score first
CompareAscending(a, b) ==
    IF F32Lt(a.score, b.score) THEN "Less"
    ELSE IF F32Lt(b.score, a.score) THEN "Greater"
    ELSE "Equal"

\* the closure of sort_by: b.score.partial_cmp(&a.score).unwrap_or(Equal)
Compare(a, b) ==
    IF F32Lt(b.score, a.score) THEN "Less"
    ELSE IF F32Lt(a.score, b.score) THEN "Greater"
    ELSE "Equal"

\* slice::sort_by on a short slice: insertion sort, each element moved left
\* past the elements it is less than
RECURSIVE InsertTail(_, _, _)
InsertTail(s, x, j) ==
    IF j >= 1 /\ Compare(x, s[j]) = "Less" THEN InsertTail(s, x, j - 1)
    ELSE InsertAt(s, j + 1, x)

RECURSIVE SortBy(_, _)
SortBy(s, n) ==
    IF n = 0 THEN <<>>
    ELSE LET sorted == SortBy(s, n - 1) IN InsertTail(sorted, s[n], n - 1)

\* a truncate that keeps one element more
TruncateOffByOne(s, limit) ==
    SubSeq(s, 1, IF Len(s) <= limit + 1 THEN Len(s) ELSE limit + 1)

\* Vec::truncate
Truncate(s, limit) == SubSeq(s, 1, IF Len(s) <= limit THEN Len(s) ELSE limit)

\* main.rs:231-243: every row scored against the query, then sorted
Ranked(all_records, query_embedding) ==
    LET results == [i \in 1..Len(all_records) |->
                       [file |-> all_records[i],
                        score |-> cosine_similarity(
                            all_records[i].content_embedding, query_embedding)]]
    IN  SortBy(results, Len(results))

\* hybrid_search, main.rs:222-254
hybrid_search(st, mdl, query, limit, scanFault) ==
    LET embedded == Embed(mdl, query)
    IN  IF ~embedded.ok THEN Err(EmbeddingError)
        ELSE LET query_embedding == embedded.v
                 all_records == SelectAll(st, scanFault)
             IN  IF ~all_records.ok THEN all_records
                 ELSE Ok(Truncate(Ranked(all_records.v, query_embedding), limit))

(***************************************************************************)
(* The directory walker's output: what WalkDir::new(dir_path) yields, an   *)
(* entry with its file type or an error.  The root comes first.            *)
(***************************************************************************)
DirEntry(p, t) == [ok |-> TRUE, path |-> p, file_type |-> t]
WalkErr == [ok |-> FALSE]

WalkScenario ==
    <<DirEntry("/t", "dir"), DirEntry(PathXyz, "file"), DirEntry(PathA, "file")>>

WalkMixed ==
    <<DirEntry("/t", "dir"), DirEntry(PathBadPdf, "file"), DirEntry(PathNFF, "file"),
      DirEntry(PathGone, "file"), DirEntry(PathNFE, "file"),
      DirEntry(PathPdf, "file")>>

WalkDenied ==
    <<DirEntry("/t", "dir"), DirEntry(PathA, "file"), WalkErr,
      DirEntry(PathPdf, "file")>>

Walks == {WalkScenario, WalkMixed, WalkDenied}

MaxLimit == 3

Idle == [pc |-> "idle"]

\* a loop that ends at the first file that fails
AfterIndexFileAbort(d, p, r) ==
    [d EXCEPT !.i = IF r.res.ok THEN d.i + 1 ELSE Len(d.walk) + 1,
              !.log = Append(d.log, [path |-> p, res |-> r.res])]

\* main.rs:215-217: an Err of index_file is printed and the loop goes on
AfterIndexFile(d, p, r) ==
    [d EXCEPT !.i = d.i + 1, !.log = Append(d.log, [path |-> p, res |-> r.res])]

(***************************************************************************)
(* The state machine.                                                      *)
(***************************************************************************)
Init == /\ store = <<>>
        /\ ev = [op |-> "new"]
        /\ dir = Idle
        /\ model \in EmbeddingModels
        /\ cosA = <<>>
        /\ cosB = <<>>
        /\ cosOut = None
        /\ tasks = <<>>

\* FileEmbeddingSystem::new, main.rs:76-108: REMOVE TABLE files, the schema,
\* the embedding model
New ==
    /\ dir.pc = "idle"
    /\ store' = <<>>
    /\ model' \in EmbeddingModels
    /\ ev' = [op |-> "new"]
    /\ UNCHANGED <<dir, cosA, cosB, cosOut, tasks>>

IndexFileEvent(p, r) ==
    [op |-> "index_file", path |-> p, res |-> r.res, calls |-> r.calls]

\* a call of index_file by the system's user
IndexFile(p) ==
    /\ dir.pc = "idle"
    /\ \E db \in DbChoices(store) :
          LET r == index_file(store, model, p, db)
          IN  /\ store' = r.store
              /\ ev' = IndexFileEvent(p, r)
    /\ UNCHANGED <<dir, model, cosA, cosB, cosOut, tasks>>

\* a call of hybrid_search
HybridSearch(query, limit) ==
    /\ dir.pc = "idle"
    /\ \E scanFault \in BOOLEAN :
          ev' = [op |-> "hybrid_search", query |-> query, limit |-> limit,
                 scanFault |-> scanFault,
                 res |-> hybrid_search(store, model, query, limit, scanFault)]
    /\ UNCHANGED <<store, dir, model, cosA, cosB, cosOut, tasks>>

\* index_directory is called: the walk begins
IndexDirectoryCall(w) ==
    /\ dir.pc = "idle"
    /\ dir' = [pc |-> "walking", walk |-> w, i |-> 1, log |-> <<>>]
    /\ ev' = [op |-> "index_directory_call"]
    /\ UNCHANGED <<store, model, cosA, cosB, cosOut, tasks>>

IndexDirectoryReturn(res) ==
    [op |-> "index_directory", res |-> res, walk |-> dir.walk, log |-> dir.log,
     i |-> dir.i]

\* main.rs:213: `let entry = entry?` on an error of the walker
WalkEntryError ==
    /\ dir.pc = "walking"
    /\ dir.i <= Len(dir.walk)
    /\ ~dir.walk[dir.i].ok
    /\ ev' = IndexDirectoryReturn(Err(WalkDirError))
    /\ dir' = Idle
    /\ UNCHANGED <<store, model, cosA, cosB, cosOut, tasks>>

\* main.rs:214: an entry that is not a file is passed over
WalkEntrySkip ==
    /\ dir.pc = "walking"
    /\ dir.i <= Len(dir.walk)
    /\ dir.walk[dir.i].ok
    /\ dir.walk[dir.i].file_type # "file"
    /\ dir' = [dir EXCEPT !.i = dir.i + 1]
    /\ ev' = [op |-> "skip", path |-> dir.walk[dir.i].path]
    /\ UNCHANGED <<store, model, cosA, cosB, cosOut, tasks>>

\* main.rs:215-217: index_file on a file entry
WalkEntryFile ==
    /\ dir.pc = "walking"
    /\ dir.i <= Len(dir.walk)
    /\ dir.walk[dir.i].ok
    /\ dir.walk[dir.i].file_type = "file"
    /\ \E db \in DbChoices(store) :
          LET p == dir.walk[dir.i].path
              r == index_file(store, model, p, db)
          IN  /\ store' = r.store
              /\ ev' = IndexFileEvent(p, r)
              /\ dir' = AfterIndexFile(dir, p, r)
    /\ UNCHANGED <<model, cosA, cosB, cosOut, tasks>>

\* main.rs:220: the walk is over, Ok(())
WalkEnd ==
    /\ dir.pc = "walking"
    /\ dir.i > Len(dir.walk)
    /\ ev' = IndexDirectoryReturn(Ok(<<>>))
    /\ dir' = Idle
    /\ UNCHANGED <<store, model, cosA, cosB, cosOut, tasks>>

Next ==
    \/ New
    \/ \E p \in Paths : IndexFile(p)
    \/ \E q \in Queries, k \in 0..MaxLimit : HybridSearch(q, k)
    \/ \E w \in Walks : IndexDirectoryCall(w)
    \/ WalkEntryError
    \/ WalkEntrySkip
    \/ WalkEntryFile
    \/ WalkEnd

Spec == Init /\ [][Next]_vars

(***************************************************************************)
(* cosine_similarity on its own: the arguments are drawn from the vectors  *)
(* of at most MaxDim components over CosValues, and the function is        *)
(* applied to them.                                                        *)
(***************************************************************************)
MaxDim == 2

F32Huge == F32(0, ExpBias + 64, 0)
F32Tiny == F32(0, ExpBias - 77, 0)

CosValues == {F32Zero(0), F32One, F32MinusOne, F32Huge, F32Tiny, F32NaN}

CosVectors == UNION {[1..n -> CosValues] : n \in 0..MaxDim}

InitCos == /\ store = <<>>
           /\ ev = [op |-> "new"]
           /\ dir = Idle
           /\ model = ModelUniform
           /\ cosA \in CosVectors
           /\ cosB \in CosVectors
           /\ cosOut = None
           /\ tasks = <<>>

CosineSimilarity ==
    /\ cosOut = None
    /\ cosOut' = Some(cosine_similarity(cosA, cosB))
    /\ UNCHANGED <<store, ev, dir, model, cosA, cosB, tasks>>

NextCos == CosineSimilarity

SpecCos == InitCos /\ [][NextCos]_vars

(***************************************************************************)
(* Two index_file calls in flight on one system.  index_file is an async   *)
(* fn on &self: a call runs from one collaborator call to the next (stat   *)
(* and the extension check, extract, embed, create), and between two of    *)
(* its steps the other call may run.  The create is one statement of the   *)
(* store, which checks idx_path and inserts the row as one step.           *)
(* A task keeps the call's locals; `at` holds, for each step the call has  *)
(* taken, its position among the steps of both calls.                      *)
(***************************************************************************)
TaskIds == {"a", "b"}

Started(p) ==
    [path |-> p, pc |-> "stat", at |-> <<>>, metadata |-> None,
     extension |-> None, content |-> None, file_record |-> None, res |-> None]

Clock(ts) == Len(ts["a"].at) + Len(ts["b"].at) + 1

Step(ts, t, task) ==
    [ts EXCEPT ![t] = [task EXCEPT !.at = Append(ts[t].at, Clock(ts))]]

Returned(task, res) == [task EXCEPT !.pc = "done", !.res = Some(res)]

InitInterleaved ==
    /\ store = <<>>
    /\ ev = [op |-> "new"]
    /\ dir = Idle
    /\ model \in EmbeddingModels
    /\ cosA = <<>>
    /\ cosB = <<>>
    /\ cosOut = None
    /\ tasks \in [TaskIds -> {Started(p) : p \in Paths}]

\* main.rs:132-152: fs::metadata, the extension and the check of both
TaskStat(t) ==
    /\ tasks[t].pc = "stat"
    /\ LET task == tasks[t]
           metadata == Metadata(task.path)
           x == Extension(task.path)
           extension == IF x = None THEN None ELSE Some(ToLowercase(x[1]))
       IN  tasks' = Step(tasks, t,
              IF ~metadata.ok THEN Returned(task, metadata)
              ELSE IF ~metadata.v.is_file \/ ~IsSupported(extension)
              THEN Returned(task, Err(UnsupportedFileType(
                      IF extension = None THEN "unknown" ELSE extension[1])))
              ELSE [task EXCEPT !.pc = "extract", !.metadata = Some(metadata.v),
                                !.extension = extension])
    /\ ev' = [op |-> "index_file_step", task |-> t, step |-> "stat"]
    /\ UNCHANGED <<store, dir, model, cosA, cosB, cosOut>>

\* main.rs:154 and 204-207: self.extract_text_content(&path).await
TaskExtract(t) ==
    /\ tasks[t].pc = "extract"
    /\ LET task == tasks[t]
           content == extract_text_content(task.path)
       IN  tasks' = Step(tasks, t,
              IF ~content.ok THEN Returned(task, content)
              ELSE [task EXCEPT !.pc = "embed", !.content = Some(content.v)])
    /\ ev' = [op |-> "index_file_step", task |-> t, step |-> "extract"]
    /\ UNCHANGED <<store, dir, model, cosA, cosB, cosOut>>

\* main.rs:157-176: embed, the preview and the FileRecord
TaskEmbed(t) ==
    /\ tasks[t].pc = "embed"
    /\ LET task == tasks[t]
           embeddings == Embed(model, task.content[1])
       IN  tasks' = Step(tasks, t,
              IF ~embeddings.ok THEN Returned(task, Err(EmbeddingError))
              ELSE [task EXCEPT
                      !.pc = "create",
                      !.file_record = Some(
                          [path |-> ToStringLossy(task.path),
                           name |-> FileName(task.path),
                           extension |-> task.extension,
                           mime_type |-> MimeGuess(task.path),
                           size_bytes |-> task.metadata[1].len,
                           content_embedding |-> embeddings.v,
                           content_preview |->
                               Take(task.content[1], PreviewChars)])])
    /\ ev' = [op |-> "index_file_step", task |-> t, step |-> "embed"]
    /\ UNCHANGED <<store, dir, model, cosA, cosB, cosOut>>

\* main.rs:186-202: self.db.create("files").content(file_record).await?
TaskCreate(t) ==
    /\ tasks[t].pc = "create"
    /\ \E db \in DbChoices(store) :
          LET task == tasks[t]
              created == Create(store, task.file_record[1], db)
          IN  /\ store' = created.store
              /\ tasks' = Step(tasks, t,
                    Returned(task, IF created.res.ok THEN Ok(<<>>)
                                   ELSE created.res))
    /\ ev' = [op |-> "index_file_step", task |-> t, step |-> "create"]
    /\ UNCHANGED <<dir, model, cosA, cosB, cosOut>>

NextInterleaved ==
    \E t \in TaskIds :
        \/ TaskStat(t)
        \/ TaskExtract(t)
        \/ TaskEmbed(t)
        \/ TaskCreate(t)

SpecInterleaved == InitInterleaved /\ [][NextInterleaved]_vars

(***************************************************************************)
(* The claims.                                                             *)
(***************************************************************************)
Min(a, b) == IF a <= b THEN a ELSE b

RemoveAt(s, i) == SubSeq(s, 1, i - 1) \o SubSeq(s, i + 1, Len(s))

\* the paths of the file entries among the first n entries of walk w
RECURSIVE FilePaths(_, _)
FilePaths(w, n) ==
    IF n = 0 THEN <<>>
    ELSE IF w[n].ok /\ w[n].file_type = "file"
    THEN Append(FilePaths(w, n - 1), w[n].path)
    ELSE FilePaths(w, n - 1)

LogPaths(log) == [j \in 1..Len(log) |-> log[j].path]

\* p is a regular file of a supported type whose text can be extracted
SupportedExtractable(p) ==
    LET f == FileSystem(p)
    IN  /\ f.kind = "file"
        /\ f.ext # None
        /\ ToLowercase(f.ext[1]) \in SUPPORTED_TEXT_EXTENSIONS
        /\ IF ToLowercase(f.ext[1]) = "pdf" THEN f.pdf # None ELSE f.utf8 # None

\* the embedding or the create of this very file failed
OwnLateFailure(res) ==
    /\ ~res.ok
    /\ \/ res.err.kind = "Embedding"
       \/ res.err = DatabaseError("Failure")

C2_AllOrNothing ==
    [][ev'.op = "index_file" =>
          IF ev'.res.ok
          THEN \E i \in 1..Len(store') :
                  /\ store'[i].path = ToStringLossy(ev'.path)
                  /\ RemoveAt(store', i) = store
          ELSE store' = store]_vars

\* a call that failed in the store itself, with rows already stored
C2_Witness ==
    /\ ev.op = "index_file"
    /\ ev.res = Err(DatabaseError("Failure"))
    /\ ev.calls = <<"stat", "extract", "embed", "create">>
    /\ Len(store) >= 1

\* p exists and its lower-cased extension is not supported, or it has none
UnsupportedExisting(p) ==
    LET f == FileSystem(p)
    IN  /\ f.kind # "missing"
        /\ \/ f.ext = None
           \/ ToLowercase(f.ext[1]) \notin SUPPORTED_TEXT_EXTENSIONS

\* C3: index_file on an existing path of an unsupported extension (or none)
\* fails with UnsupportedFileType after the stat alone, with neither the
\* extractor nor the embedding provider called, in every state it is called
\* in; and no row is ever stored for such a path.
C3_UnsupportedRejectedEarly ==
    /\ (ev.op = "index_file" /\ UnsupportedExisting(ev.path)) =>
          /\ ~ev.res.ok
          /\ ev.res.err.kind = "UnsupportedFileType"
          /\ ev.calls = <<"stat">>
    /\ \A p \in Paths :
          UnsupportedExisting(p) => ToStringLossy(p) \notin StoredPaths(store)

\* the .xyz file was rejected while the store holds rows
C3_Witness ==
    /\ ev.op = "index_file"
    /\ ev.path = PathXyz
    /\ ev.res = Err(UnsupportedFileType("xyz"))
    /\ Len(store) >= 1

\* the store holds the row index_file made of p
HasRecord(st, p) ==
    /\ FileSystem(p).kind = "file"
    /\ \E i \in 1..Len(st) :
          /\ st[i].path = ToStringLossy(p)
          /\ st[i].size_bytes = FileSystem(p).len
          /\ \E t \in {FileSystem(p).utf8, FileSystem(p).pdf} \ {None} :
                st[i].content_preview = Take(t[1], PreviewChars)

UniquePaths ==
    \A i, j \in 1..Len(store) : store[i].path = store[j].path => i = j

\* C4: re-indexing is rejected: index_file on a path whose row is stored
\* fails with a Database error and leaves the store as it was, and no two
\* rows ever have the same path.
C4_ReindexRejected ==
    /\ []UniquePaths
    /\ [][(ev'.op = "index_file" /\ HasRecord(store, ev'.path)) =>
             /\ ~ev'.res.ok
             /\ ev'.res.err.kind = "Database"
             /\ store' = store]_vars

\* a stored path was indexed again and the unique index refused it
C4_Witness ==
    /\ ev.op = "index_file"
    /\ ev.res = Err(DatabaseError("IndexExists"))
    /\ HasRecord(store, ev.path)

SearchOk == ev.op = "hybrid_search" /\ ev.res.ok

\* C5: a successful hybrid_search over N rows with limit k returns exactly
\* min(k, N) results, whatever the query.
C5_ResultCount == SearchOk => Len(ev.res.v) = Min(ev.limit, Len(store))

\* the empty query, more rows than the limit
C5_Witness ==
    /\ SearchOk
    /\ ev.query = QueryEmpty
    /\ ev.limit = 2
    /\ Len(store) = 3
    /\ Len(ev.res.v) = 2

\* the position of a result's row in the scan
ScanPos(r) == CHOOSE k \in 1..Len(store) : store[k].path = r.file.path

InResults(rec) == \E i \in 1..Len(ev.res.v) : ev.res.v[i].file = rec

\* C6: the results are in non-increasing order of score, results of equal
\* score are in scan order, and no row left out scores strictly higher than
\* a row returned.
C6_Ranked ==
    SearchOk =>
        LET rs == ev.res.v
            qe == Embed(model, ev.query).v
        IN  /\ \A i, j \in 1..Len(rs) :
                  i < j => /\ F32Le(rs[j].score, rs[i].score)
                           /\ F32Eq(rs[i].score, rs[j].score)
                                 => ScanPos(rs[i]) < ScanPos(rs[j])
            /\ \A k \in 1..Len(store) :
                  ~InResults(store[k]) =>
                      \A i \in 1..Len(rs) :
                          F32Le(cosine_similarity(store[k].content_embedding, qe),
                                rs[i].score)

\* results with a tie and with a strict descent
C6_Witness ==
    /\ SearchOk
    /\ \E i, j \in 1..Len(ev.res.v) :
          i < j /\ F32Eq(ev.res.v[i].score, ev.res.v[j].score)
    /\ \E i, j \in 1..Len(ev.res.v) :
          i < j /\ F32Lt(ev.res.v[j].score, ev.res.v[i].score)

\* C7: hybrid_search returns no partial result: when the embedding of the
\* query or the scan fails the call is an error; when it is Ok every result
\* is a stored row with its cosine score, no row appears twice, and a row
\* is missing only because the limit was reached.
C7_NoPartialResults ==
    ev.op = "hybrid_search" =>
        /\ (~Embed(model, ev.query).ok \/ ev.scanFault) => ~ev.res.ok
        /\ ev.res.ok =>
              LET rs == ev.res.v
                  qe == Embed(model, ev.query).v
              IN  /\ \A i \in 1..Len(rs) :
                        /\ \E k \in 1..Len(store) : store[k] = rs[i].file
                        /\ rs[i].score =
                              cosine_similarity(rs[i].file.content_embedding, qe)
                  /\ \A i, j \in 1..Len(rs) :
                        rs[i].file.path = rs[j].file.path => i = j
                  /\ \/ Len(rs) = ev.limit
                     \/ \A k \in 1..Len(store) : InResults(store[k])

\* the scan failed over a non-empty store and the call returned the error
C7_Witness ==
    /\ ev.op = "hybrid_search"
    /\ ev.scanFault
    /\ Embed(model, ev.query).ok
    /\ ev.res = Err(DatabaseError("Failure"))
    /\ Len(store) >= 2

\* C8: within a session a stored row is never changed or removed: every
\* step but new keeps every row as it is, hybrid_search leaves the whole
\* store as it is, and only new empties the table.
C8_RecordsImmutable ==
    [][/\ ev'.op # "new" =>
             \A i \in 1..Len(store) : \E j \in 1..Len(store') : store'[j] = store[i]
       /\ ev'.op = "hybrid_search" => store' = store
       /\ Len(store') < Len(store) => ev'.op = "new"]_vars

\* a row was added to a store that already held two
C8_Witness ==
    /\ ev.op = "index_file"
    /\ ev.res.ok
    /\ Len(store) = 3

AllZero(v) == \A i \in 1..Len(v) : IsZero(v[i])

\* C9: cosine_similarity returns exactly 0.0 for vectors of different
\* lengths and for vectors of one length of which one is all zeros (the two
\* empty vectors among them).
C9_DegenerateIsZero ==
    (cosOut # None /\ (Len(cosA) # Len(cosB) \/ AllZero(cosA) \/ AllZero(cosB)))
        => cosOut = Some(F32Zero(0))

\* a zero vector against a non-zero one of the same length
C9_Witness ==
    /\ cosOut = Some(F32Zero(0))
    /\ Len(cosA) = 2
    /\ Len(cosB) = 2
    /\ AllZero(cosA)
    /\ ~AllZero(cosB)

Finite(v) == \A i \in 1..Len(v) : v[i].e # ExpMax

\* C10: for vectors of finite components, -1.0 <= cosine_similarity(a, b)
\* <= 1.0, and cosine_similarity(a, a) = 1.0 when a is not all zeros.
C10_ScoreInRange ==
    (cosOut # None /\ Finite(cosA) /\ Finite(cosB)) =>
        /\ F32Le(F32MinusOne, cosOut[1])
        /\ F32Le(cosOut[1], F32One)
        /\ (cosA = cosB /\ ~AllZero(cosA)) => cosOut[1] = F32One
\* C11: a failure of the directory traversal itself (an error entry of the
\* walker) or of the stat of one path is local to that path: whenever
\* index_directory returns, it returns Ok, it has gone through the whole
\* walk, and every file entry of the walk, those after the failure
\* included, has been passed to index_file.
C11_TraversalFailureLocal ==
    ev.op = "index_directory" =>
        /\ ev.res.ok
        /\ ev.i = Len(ev.walk) + 1
        /\ LogPaths(ev.log) = FilePaths(ev.walk, Len(ev.walk))
TaskKey(t) == ToStringLossy(tasks[t].path)

\* index_file on p gets as far as the create: p is a supported, extractable
\* file and the provider embeds its text
Indexable(p) ==
    /\ SupportedExtractable(p)
    /\ Embed(model, extract_text_content(p).v).ok

\* the row a lone index_file call makes of p in an empty table
SoloRecord(p) ==
    index_file(<<>>, model, p, [fault |-> FALSE, pos |-> 1]).store[1]

AllDone == \A t \in TaskIds : tasks[t].pc = "done"

NoStoreFault ==
    \A t \in TaskIds : tasks[t].res # Some(Err(DatabaseError("Failure")))

TaskOk(t) == tasks[t].res = Some(Ok(<<>>))

=============================================================================
